---- MODULE Spec2Model ----
(***************************************************************************)
(* Model of crates/picker2/src/picker2.rs: the Picker view, its navigation *)
(* and confirm/cancel handlers, the query-change pipeline, the row closure *)
(* of render and the continuation that runs when an update task resolves.  *)
(*                                                                         *)
(* The PickerDelegate is a trait: only its declarations are in the file.   *)
(* The delegate modelled here stores the index it is given and may change  *)
(* match_count / selected_index when update_matches is called and while an *)
(* update task runs.  gpui's Task and executor are not in the file either; *)
(* spawning, dropping and resolving a task are modelled after section 5 of *)
(* the specification (dropping a handle does not cancel the task).         *)
(***************************************************************************)
EXTENDS Integers, Sequences, FiniteSets, TLC

\* ---------------------------------------------------------------- bounds
\* usize::MAX, scaled down so that index + 1 can overflow
UsizeMax == 3
\* largest match_count the delegate reports
MaxCount == 2
\* number of query changes (update tasks) in one run
MaxQueries == 2
\* number of distinct query texts beyond the empty one
MaxText == 1

\* usize arithmetic wraps modulo Word
Word == UsizeMax + 1
Usize == 0 .. UsizeMax
Counts == 0 .. (IF MaxCount < UsizeMax THEN MaxCount ELSE UsizeMax)
Texts == 0 .. MaxText
TaskIds == 1 .. MaxQueries
\* Option<Task>: None is 0, Some(task) is the task's id
None == 0
\* scroll_handle before any scroll_to_item
NoScroll == -1
\* the handler that ran last was not given an editor event
NoEvent == "none"
\* the handler that ran last was not given a visible range
NoRange == <<0, 0>>

Min(a, b) == IF a < b THEN a ELSE b
Max(a, b) == IF a > b THEN a ELSE b
BoolArg(b) == IF b THEN 1 ELSE 0

VARIABLES
    live,            \* the Picker view exists (WeakView upgrade succeeds)
    failed,          \* a handler panicked (arithmetic overflow); the process is gone
    matchCount,      \* delegate.match_count()
    selectedIndex,   \* delegate.selected_index()
    scrollTarget,    \* last index given to scroll_handle.scroll_to_item
    pending,         \* pending_update_matches
    task,            \* status of each spawned update task
    nTasks,          \* number of update tasks spawned so far
    resolveOrder,    \* ids of the tasks in the order they resolved
    refreshes,       \* number of matches_updated runs
    editorText,      \* text of the query editor
    lastOp,          \* the handler that ran last
    lastEvent,       \* the editor event that handler was given, if any
    visibleRange,    \* the visible range <<start, end>> that handler was given, if any
    calls            \* delegate / scroll-handle / field accesses of that handler, in order

vars == <<live, failed, matchCount, selectedIndex, scrollTarget, pending, task,
          nTasks, resolveOrder, refreshes, editorText, lastOp, lastEvent, visibleRange, calls>>

\* ------------------------------------------------------ gpui Task (spec 5)
\* cx.spawn: the task starts running
Spawn(ts, id) == [ts EXCEPT ![id] = "running"]

\* dropping an Option<Task> handle: the task is not cancelled
DropTask(ts, h) == ts

\* ------------------------------------------------------------- delegate
\* PickerDelegate::set_selected_index as the reference delegate does it
Delegate_set_selected_index(ix) == ix

\* ------------------------------------------------------ pure computations
\* index + 1 on usize overflows
select_next_overflows(index) == index + 1 > UsizeMax

\* variant: the upper clamp is count instead of count - 1
select_next_ix_clamps_to_count(index, count) == Min((index + 1) % Word, count)

\* cmp::min(index + 1, count - 1), index + 1 wrapping when overflow checks are off
select_next_ix(index, count) == Min((index + 1) % Word, count - 1)

\* index.saturating_sub(1)
select_prev_ix(index) == IF index = 0 THEN 0 ELSE index - 1

\* count - 1
select_last_ix(count) == count - 1

\* ------------------------------------------------------------------ Init
Init ==
    /\ live = TRUE
    /\ failed = FALSE
    \* the delegate handed to Picker::new has a selection inside its matches
    /\ matchCount \in Counts
    /\ selectedIndex \in Usize
    /\ selectedIndex < matchCount \/ selectedIndex = 0
    /\ scrollTarget = NoScroll
    /\ pending = None
    /\ task = [id \in TaskIds |-> "unspawned"]
    /\ nTasks = 0
    /\ resolveOrder = <<>>
    /\ refreshes = 0
    /\ editorText = 0
    /\ lastOp = "new"
    /\ lastEvent = NoEvent
    /\ visibleRange = NoRange
    /\ calls = <<>>

\* what a handler that only navigates leaves alone
NavFrame == UNCHANGED <<live, matchCount, pending, task, nTasks, resolveOrder,
                        refreshes, editorText>>

\* the calls of a navigation handler that sets the selection to ix
NavCalls(readsIndex, ix) ==
    << <<"match_count", 0>> >>
    \o (IF readsIndex THEN << <<"selected_index", 0>> >> ELSE <<>>)
    \o << <<"set_selected_index", ix>>, <<"scroll_to_item", ix>> >>

\* ------------------------------------------------------------ navigation
select_next ==
    /\ live /\ ~failed
    /\ lastOp' = "select_next"
    /\ lastEvent' = NoEvent
    /\ visibleRange' = NoRange
    /\ NavFrame
    /\ IF matchCount > 0
       THEN \/ /\ select_next_overflows(selectedIndex)
               \* overflow checks on: index + 1 panics
               /\ failed' = TRUE
               /\ calls' = << <<"match_count", 0>>, <<"selected_index", 0>> >>
               /\ UNCHANGED <<selectedIndex, scrollTarget>>
            \/ /\ LET ix == select_next_ix(selectedIndex, matchCount) IN
                  /\ selectedIndex' = Delegate_set_selected_index(ix)
                  /\ scrollTarget' = ix
                  /\ calls' = NavCalls(TRUE, ix)
               /\ UNCHANGED failed
       ELSE /\ calls' = << <<"match_count", 0>> >>
            /\ UNCHANGED <<failed, selectedIndex, scrollTarget>>

\* variant: select_prev without the count > 0 test
select_prev_unguarded ==
    /\ live /\ ~failed
    /\ lastOp' = "select_prev"
    /\ lastEvent' = NoEvent
    /\ visibleRange' = NoRange
    /\ NavFrame
    /\ UNCHANGED failed
    /\ LET ix == select_prev_ix(selectedIndex) IN
       /\ selectedIndex' = Delegate_set_selected_index(ix)
       /\ scrollTarget' = ix
       /\ calls' = NavCalls(TRUE, ix)

select_prev ==
    /\ live /\ ~failed
    /\ lastOp' = "select_prev"
    /\ lastEvent' = NoEvent
    /\ visibleRange' = NoRange
    /\ NavFrame
    /\ UNCHANGED failed
    /\ IF matchCount > 0
       THEN LET ix == select_prev_ix(selectedIndex) IN
            /\ selectedIndex' = Delegate_set_selected_index(ix)
            /\ scrollTarget' = ix
            /\ calls' = NavCalls(TRUE, ix)
       ELSE /\ calls' = << <<"match_count", 0>> >>
            /\ UNCHANGED <<selectedIndex, scrollTarget>>

select_first ==
    /\ live /\ ~failed
    /\ lastOp' = "select_first"
    /\ lastEvent' = NoEvent
    /\ visibleRange' = NoRange
    /\ NavFrame
    /\ UNCHANGED failed
    /\ IF matchCount > 0
       THEN /\ selectedIndex' = Delegate_set_selected_index(0)
            /\ scrollTarget' = 0
            /\ calls' = NavCalls(FALSE, 0)
       ELSE /\ calls' = << <<"match_count", 0>> >>
            /\ UNCHANGED <<selectedIndex, scrollTarget>>

select_last ==
    /\ live /\ ~failed
    /\ lastOp' = "select_last"
    /\ lastEvent' = NoEvent
    /\ visibleRange' = NoRange
    /\ NavFrame
    /\ UNCHANGED failed
    /\ IF matchCount > 0
       THEN LET ix == select_last_ix(matchCount) IN
            /\ selectedIndex' = Delegate_set_selected_index(ix)
            /\ scrollTarget' = ix
            /\ calls' = NavCalls(FALSE, ix)
       ELSE /\ calls' = << <<"match_count", 0>> >>
            /\ UNCHANGED <<selectedIndex, scrollTarget>>

\* ------------------------------------------------- dismissal, confirmation
ForwardFrame == UNCHANGED <<live, failed, matchCount, selectedIndex, scrollTarget,
                            pending, task, nTasks, resolveOrder, refreshes, editorText>>

cancel ==
    /\ live /\ ~failed
    /\ lastOp' = "cancel"
    /\ lastEvent' = NoEvent
    /\ visibleRange' = NoRange
    /\ calls' = << <<"dismissed", 0>> >>
    /\ ForwardFrame

confirm ==
    /\ live /\ ~failed
    /\ lastOp' = "confirm"
    /\ lastEvent' = NoEvent
    /\ visibleRange' = NoRange
    /\ calls' = << <<"confirm", BoolArg(FALSE)>> >>
    /\ ForwardFrame

\* variant: secondary_confirm forwards secondary = false
secondary_confirm_primary ==
    /\ live /\ ~failed
    /\ lastOp' = "secondary_confirm"
    /\ lastEvent' = NoEvent
    /\ visibleRange' = NoRange
    /\ calls' = << <<"confirm", BoolArg(FALSE)>> >>
    /\ ForwardFrame

secondary_confirm ==
    /\ live /\ ~failed
    /\ lastOp' = "secondary_confirm"
    /\ lastEvent' = NoEvent
    /\ visibleRange' = NoRange
    /\ calls' = << <<"confirm", BoolArg(TRUE)>> >>
    /\ ForwardFrame

\* ------------------------------------------------- matches-updated refresh
\* variant: matches_updated does not clear the slot
matches_updated_pending_kept(p) == p

\* the value matches_updated leaves in pending_update_matches
matches_updated_pending(p) == None

\* the accesses of matches_updated, in order, when selected_index() returns index
matches_updated_calls(index) ==
    << <<"selected_index", 0>>, <<"scroll_to_item", index>>,
       <<"pending_update_matches", None>>, <<"notify", 0>> >>

\* ---------------------------------------------------- query-change pipeline
\* variant: the task is registered before the synchronous refresh runs
update_matches_body_register_first(query, mc, si) ==
    LET id == nTasks + 1 IN
    /\ nTasks < MaxQueries
    /\ matchCount' = mc
    /\ selectedIndex' = si
    /\ scrollTarget' = si
    /\ refreshes' = refreshes + 1
    /\ task' = Spawn(DropTask(task, pending), id)
    /\ nTasks' = id
    /\ pending' = None
    /\ calls' = << <<"update_matches", query>>, <<"spawn", id>>,
                   <<"pending_update_matches", id>> >>
                \o matches_updated_calls(si)
    /\ UNCHANGED <<live, failed, resolveOrder>>

\* variant: the synchronous refresh is left out
update_matches_body_no_sync_refresh(query, mc, si) ==
    LET id == nTasks + 1 IN
    /\ nTasks < MaxQueries
    /\ matchCount' = mc
    /\ selectedIndex' = si
    /\ task' = Spawn(DropTask(task, pending), id)
    /\ nTasks' = id
    /\ pending' = id
    /\ calls' = << <<"update_matches", query>>, <<"spawn", id>>,
                   <<"pending_update_matches", id>> >>
    /\ UNCHANGED <<live, failed, resolveOrder, scrollTarget, refreshes>>

\* Picker::update_matches(query).  mc and si are the match count and the
\* selected index the delegate exposes once Delegate::update_matches returned.
update_matches_body(query, mc, si) ==
    LET id == nTasks + 1 IN
    /\ nTasks < MaxQueries
    \* let update = self.delegate.update_matches(query, cx);
    /\ matchCount' = mc
    /\ selectedIndex' = si
    \* self.matches_updated(cx);
    /\ scrollTarget' = si
    /\ refreshes' = refreshes + 1
    \* self.pending_update_matches = Some(cx.spawn(..));
    /\ task' = Spawn(DropTask(DropTask(task, pending), matches_updated_pending(pending)), id)
    /\ nTasks' = id
    /\ pending' = id
    /\ calls' = << <<"update_matches", query>> >>
                \o matches_updated_calls(si)
                \o << <<"spawn", id>>, <<"pending_update_matches", id>> >>
    /\ UNCHANGED <<live, failed, resolveOrder>>

update_matches(query, mc, si) ==
    /\ live /\ ~failed
    /\ lastOp' = "update_matches"
    /\ lastEvent' = NoEvent
    /\ visibleRange' = NoRange
    /\ update_matches_body(query, mc, si)
    /\ UNCHANGED editorText

\* the editor events the picker is subscribed to
EditorEvents == {"BufferEdited", "Edited", "Blurred"}

\* variant: every editor event starts the pipeline
starts_update_any_event(event) == TRUE

\* does the event start the query-change pipeline
starts_update(event) == event = "BufferEdited"

\* Picker::on_input_editor_event.  text is the editor's text when the event
\* is delivered; only a buffer edit changes it.
on_input_editor_event(event, text, mc, si) ==
    /\ live /\ ~failed
    /\ lastOp' = "on_input_editor_event"
    /\ lastEvent' = event
    /\ visibleRange' = NoRange
    /\ IF starts_update(event)
       THEN /\ editorText' = text
            /\ update_matches_body(text, mc, si)
       ELSE \* nothing is read and nothing is called
            /\ text = editorText /\ mc = matchCount /\ si = selectedIndex
            /\ calls' = <<>>
            /\ UNCHANGED <<live, failed, matchCount, selectedIndex, scrollTarget,
                           pending, task, nTasks, resolveOrder, refreshes, editorText>>

\* ------------------------------------------------------- task resolution
\* variant: a task that is not the tracked one skips the refresh
TaskResolved_stale_skips(id) ==
    /\ ~failed
    /\ task[id] = "running"
    /\ lastOp' = "task_resolved"
    /\ lastEvent' = NoEvent
    /\ visibleRange' = NoRange
    /\ resolveOrder' = Append(resolveOrder, id)
    /\ IF live /\ pending = id
       THEN /\ scrollTarget' = selectedIndex
            /\ refreshes' = refreshes + 1
            /\ pending' = None
            /\ task' = [task EXCEPT ![id] = "done"]
            /\ calls' = matches_updated_calls(selectedIndex)
       ELSE /\ task' = [task EXCEPT ![id] = IF live THEN "done" ELSE "skipped"]
            /\ calls' = <<>>
            /\ UNCHANGED <<scrollTarget, refreshes, pending>>
    /\ UNCHANGED <<live, failed, matchCount, selectedIndex, nTasks, editorText>>

\* variant: the continuation clamps a selection left beyond the matches
TaskResolved_clamps(id) ==
    /\ ~failed
    /\ task[id] = "running"
    /\ lastOp' = "task_resolved"
    /\ lastEvent' = NoEvent
    /\ visibleRange' = NoRange
    /\ resolveOrder' = Append(resolveOrder, id)
    /\ IF live
       THEN LET clamp == matchCount > 0 /\ selectedIndex >= matchCount
                ix == IF clamp THEN matchCount - 1 ELSE selectedIndex
            IN /\ selectedIndex' = ix
               /\ scrollTarget' = ix
               /\ refreshes' = refreshes + 1
               /\ pending' = None
               /\ task' = [task EXCEPT ![id] = "done"]
               /\ calls' = (IF clamp THEN << <<"set_selected_index", ix>> >> ELSE <<>>)
                           \o matches_updated_calls(ix)
       ELSE /\ task' = [task EXCEPT ![id] = "skipped"]
            /\ calls' = <<>>
            /\ UNCHANGED <<scrollTarget, refreshes, pending, selectedIndex>>
    /\ UNCHANGED <<live, failed, matchCount, nTasks, editorText>>

\* variant: the continuation skips the refresh when there are no matches
TaskResolved_skips_empty(id) ==
    /\ ~failed
    /\ task[id] = "running"
    /\ lastOp' = "task_resolved"
    /\ lastEvent' = NoEvent
    /\ visibleRange' = NoRange
    /\ resolveOrder' = Append(resolveOrder, id)
    /\ IF live /\ matchCount > 0
       THEN /\ scrollTarget' = selectedIndex
            /\ refreshes' = refreshes + 1
            /\ pending' = None
            /\ task' = [task EXCEPT ![id] = "done"]
            /\ calls' = matches_updated_calls(selectedIndex)
       ELSE /\ task' = [task EXCEPT ![id] = IF live THEN "done" ELSE "skipped"]
            /\ calls' = <<>>
            /\ UNCHANGED <<scrollTarget, refreshes, pending>>
    /\ UNCHANGED <<live, failed, matchCount, selectedIndex, nTasks, editorText>>

\* variant: the continuation runs matches_updated without the liveness probe
TaskResolved_no_probe(id) ==
    /\ ~failed
    /\ task[id] = "running"
    /\ lastOp' = "task_resolved"
    /\ lastEvent' = NoEvent
    /\ visibleRange' = NoRange
    /\ resolveOrder' = Append(resolveOrder, id)
    /\ scrollTarget' = selectedIndex
    /\ refreshes' = refreshes + 1
    /\ pending' = None
    /\ task' = [task EXCEPT ![id] = IF live THEN "done" ELSE "skipped"]
    /\ calls' = matches_updated_calls(selectedIndex)
    /\ UNCHANGED <<live, failed, matchCount, selectedIndex, nTasks, editorText>>

\* The spawned future: update.await has finished; this.update(..) runs
\* matches_updated when the view still exists and is a no-op (.ok()) when not.
TaskResolved(id) ==
    /\ ~failed
    /\ task[id] = "running"
    /\ lastOp' = "task_resolved"
    /\ lastEvent' = NoEvent
    /\ visibleRange' = NoRange
    /\ resolveOrder' = Append(resolveOrder, id)
    /\ IF live
       THEN /\ scrollTarget' = selectedIndex
            /\ refreshes' = refreshes + 1
            /\ pending' = matches_updated_pending(pending)
            /\ task' = [DropTask(task, pending) EXCEPT ![id] = "done"]
            /\ calls' = matches_updated_calls(selectedIndex)
       ELSE /\ task' = [task EXCEPT ![id] = "skipped"]
            /\ calls' = <<>>
            /\ UNCHANGED <<scrollTarget, refreshes, pending>>
    /\ UNCHANGED <<live, failed, matchCount, selectedIndex, nTasks, editorText>>

\* ------------------------------------------------------------- rendering
\* variant: every row up to the selected one is marked selected
render_match_selected_upto(ix, selected_ix) == ix <= selected_ix

\* the selected flag passed to render_match: ix == selected_ix
render_match_selected(ix, selected_ix) == ix = selected_ix

\* Picker::render and the row closure of its uniform_list, called with the
\* visible range start .. end (end excluded) inside the item count.
render(start, end) ==
    /\ live /\ ~failed
    /\ start <= end /\ end <= matchCount
    /\ lastOp' = "render"
    /\ lastEvent' = NoEvent
    /\ visibleRange' = <<start, end>>
    /\ calls' = << <<"match_count", 0>>, <<"selected_index", 0>> >>
                \o [i \in 1 .. (end - start) |->
                       <<"render_match", start + i - 1,
                         BoolArg(render_match_selected(start + i - 1, selectedIndex))>>]
    /\ UNCHANGED <<live, failed, matchCount, selectedIndex, scrollTarget, pending,
                   task, nTasks, resolveOrder, refreshes, editorText>>

\* ------------------------------------------------------------ environment
\* The view is released.  The struct and its pending_update_matches handle
\* are dropped; the fields keep their last values in the model.
Destroy ==
    /\ live /\ ~failed
    /\ live' = FALSE
    /\ task' = DropTask(task, pending)
    /\ lastOp' = "destroy"
    /\ lastEvent' = NoEvent
    /\ visibleRange' = NoRange
    /\ calls' = <<>>
    /\ UNCHANGED <<failed, matchCount, selectedIndex, scrollTarget, pending,
                   nTasks, resolveOrder, refreshes, editorText>>

\* While an update task runs the delegate changes its matches at its own pace.
DelegateProgress(mc, si) ==
    /\ live /\ ~failed
    /\ \E id \in TaskIds : task[id] = "running"
    /\ <<mc, si>> # <<matchCount, selectedIndex>>
    /\ matchCount' = mc
    /\ selectedIndex' = si
    /\ lastOp' = "delegate"
    /\ lastEvent' = NoEvent
    /\ visibleRange' = NoRange
    /\ calls' = <<>>
    /\ UNCHANGED <<live, failed, scrollTarget, pending, task, nTasks, resolveOrder,
                   refreshes, editorText>>

\* ------------------------------------------------------------------ Next
Next ==
    \/ select_next
    \/ select_prev
    \/ select_first
    \/ select_last
    \/ cancel
    \/ confirm
    \/ secondary_confirm
    \/ \E q \in Texts, mc \in Counts, si \in Usize : update_matches(q, mc, si)
    \/ \E ev \in EditorEvents, t \in Texts, mc \in Counts, si \in Usize :
          on_input_editor_event(ev, t, mc, si)
    \/ \E id \in TaskIds : TaskResolved(id)
    \/ \E start \in Counts, end \in Counts : render(start, end)
    \/ Destroy
    \/ \E mc \in Counts, si \in Usize : DelegateProgress(mc, si)

Spec == Init /\ [][Next]_vars

\* The executor runs the continuation of every task whose delegate task settled.
FairSpec == Spec /\ \A id \in TaskIds : WF_vars(TaskResolved(id))

TypeOK ==
    /\ live \in BOOLEAN
    /\ failed \in BOOLEAN
    /\ matchCount \in Counts
    /\ selectedIndex \in Usize
    /\ scrollTarget \in Usize \cup {NoScroll}
    /\ pending \in {None} \cup TaskIds
    /\ task \in [TaskIds -> {"unspawned", "running", "done", "skipped"}]
    /\ nTasks \in 0 .. MaxQueries
    /\ \A id \in TaskIds : (task[id] = "unspawned") <=> (id > nTasks)
    /\ refreshes \in 0 .. 2 * MaxQueries
    /\ editorText \in Texts
    /\ lastEvent \in EditorEvents \cup {NoEvent}
    /\ visibleRange \in Counts \X Counts

\* =================================================================== claims
Resolved(id) == task[id] \in {"done", "skipped"}
AllResolved == \A id \in TaskIds : id <= nTasks => Resolved(id)
IsQueryChange(op) == op \in {"update_matches", "on_input_editor_event"}

\* C1: a second query change leaves the still-running first task running
\* (it is not cancelled); on a live controller every running task eventually
\* resolves, and every resolution on a live controller runs its own
\* matches-updated refresh, whatever the order of resolution.
C1_OverlappingTasksBothRefresh ==
    /\ [][(IsQueryChange(lastOp') /\ nTasks' = nTasks + 1)
            => \A id \in TaskIds : task[id] = "running" => task'[id] = "running"]_vars
    /\ [][\A id \in TaskIds :
            (task[id] = "running" /\ task'[id] # "running" /\ live)
               => /\ task'[id] = "done"
                  /\ refreshes' = refreshes + 1
                  /\ scrollTarget' = selectedIndex
                  /\ calls' = matches_updated_calls(selectedIndex)]_vars
    \* no task stays running for ever on a live controller
    /\ <>[](\A id \in TaskIds : task[id] = "running" => (~live \/ failed))

\* the second task resolved first, then the first one, each with a refresh
C1_Witness ==
    /\ live
    /\ resolveOrder = <<2, 1>>
    /\ task[1] = "done" /\ task[2] = "done"
    /\ lastOp = "task_resolved"
    /\ refreshes = 4

\* C2 as stated: at most one handle, a non-null pendingUpdate is the most
\* recent task, and while the most recent task is unresolved pendingUpdate
\* refers to it.
C2_Original ==
    /\ pending \in {None} \cup TaskIds
    /\ pending # None => pending = nTasks
    /\ (live /\ nTasks > 0 /\ task[nTasks] = "running") => pending = nTasks

\* C2 amended: at most one handle; on a live controller a non-null
\* pendingUpdate is the most recent task and that task is unresolved; the slot
\* changes only when a query change registers its task or when some update
\* task (the tracked one or an older one) resolves and its refresh clears it.
C2_PendingIsLatestUntilAnyResolution ==
    /\ [](pending \in {None} \cup TaskIds)
    /\ [](pending # None => pending = nTasks)
    /\ []((live /\ pending # None) => task[pending] = "running")
    /\ [][(IsQueryChange(lastOp') /\ nTasks' = nTasks + 1) => pending' = nTasks']_vars
    /\ [][pending' # pending
            => \/ IsQueryChange(lastOp') /\ nTasks' = nTasks + 1 /\ pending' = nTasks'
               \/ /\ pending' = None
                  /\ \E id \in TaskIds : task[id] = "running" /\ task'[id] = "done"]_vars

\* the older task resolved while the newer one is still running: slot empty
C2_Witness ==
    /\ live
    /\ nTasks = 2
    /\ task[1] = "done" /\ task[2] = "running"
    /\ pending = None

\* C3: on a live controller the refreshes are one per query change (the
\* synchronous one) plus one per resolved task, so 2k once all k tasks resolved.
C3_TwoRefreshesPerQueryChange ==
    live => /\ refreshes = nTasks + Cardinality({id \in TaskIds : task[id] = "done"})
            /\ AllResolved => refreshes = 2 * nTasks

C3_Witness ==
    /\ live
    /\ nTasks >= 2
    /\ AllResolved
    /\ refreshes = 2 * nTasks

NavOps == {"select_next", "select_prev", "select_first", "select_last"}

\* the calls of the last handler that go to fn
CallsTo(fn) == SelectSeq(calls, LAMBDA c : c[1] = fn)

\* C4 as stated: with matchCount = n > 0 and any selectedIndex = i, selectNext
\* selects min(i+1, n-1), selectPrev max(i-1, 0), selectFirst 0 and
\* selectLast n-1, and the scroll request goes to the same index.
C4_Original ==
    [][(matchCount > 0 /\ lastOp' \in NavOps)
         => LET target == CASE lastOp' = "select_next"
                                 -> Min(selectedIndex + 1, matchCount - 1)
                            [] lastOp' = "select_prev" -> Max(selectedIndex - 1, 0)
                            [] lastOp' = "select_first" -> 0
                            [] lastOp' = "select_last" -> matchCount - 1
            IN /\ selectedIndex' = target
               /\ scrollTarget' = target
               /\ target >= 0]_vars

\* C5: with matchCount = 0 a navigation operation reads match_count only:
\* no selected_index read, no set_selected_index, no scroll request, and
\* nothing of the delegate or the controller changes.
C5_NavigationNoOpWhenEmpty ==
    [][(matchCount = 0 /\ lastOp' \in NavOps)
         => /\ calls' = << <<"match_count", 0>> >>
            /\ UNCHANGED <<matchCount, selectedIndex, scrollTarget, pending, task,
                           nTasks, refreshes, live, failed>>]_vars

\* selectPrev on an empty match set while an update task is in flight
C5_Witness ==
    /\ lastOp = "select_prev"
    /\ matchCount = 0
    /\ pending # None
    /\ scrollTarget # NoScroll
    /\ calls = << <<"match_count", 0>> >>

\* C6 as stated: every set_selected_index(ix) made while matchCount > 0 has
\* 0 <= ix < matchCount.
C6_Original ==
    \A i \in 1 .. Len(calls) :
        (calls[i][1] = "set_selected_index" /\ matchCount > 0)
            => (0 <= calls[i][2] /\ calls[i][2] < matchCount)

\* C7: a task that resolves after the controller was destroyed does nothing:
\* no refresh, no scroll request, no call, no change of controller or
\* delegate state, no failure.
C7_ResolutionAfterDestroyIsNoOp ==
    [][\A id \in TaskIds :
          (~live /\ task[id] = "running" /\ task'[id] # "running")
             => /\ task'[id] = "skipped"
                /\ calls' = <<>>
                /\ UNCHANGED <<matchCount, selectedIndex, scrollTarget, pending,
                               refreshes, nTasks, editorText, live, failed>>]_vars

\* a task resolved after destruction while its handle was still in the slot
C7_Witness ==
    /\ ~live
    /\ lastOp = "task_resolved"
    /\ \E id \in TaskIds : task[id] = "skipped" /\ pending = id
    /\ scrollTarget # selectedIndex

\* C8: once every started task has resolved on a live controller the slot is
\* empty and the last scroll target is the delegate's selected index, in
\* either resolution order; every state on the way is well-formed and neither
\* a query change nor a resolution fails.
C8_OverlappingUpdatesConverge ==
    /\ [](TypeOK)
    /\ []((live /\ nTasks >= 1 /\ AllResolved)
            => (pending = None /\ scrollTarget = selectedIndex))
    /\ [][failed' # failed
            => (~IsQueryChange(lastOp') /\ lastOp' # "task_resolved")]_vars

\* both tasks resolved newest first after the delegate moved its selection
C8_Witness ==
    /\ live
    /\ nTasks = 2
    /\ resolveOrder = <<2, 1>>
    /\ AllResolved
    /\ pending = None
    /\ selectedIndex >= matchCount
    /\ scrollTarget = selectedIndex

\* C9 as stated: a navigation operation makes exactly one set_selected_index
\* call and then exactly one scroll request to the same index when
\* matchCount > 0, and none of either when matchCount = 0.
C9_Original ==
    lastOp \in NavOps =>
        LET sets == CallsTo("set_selected_index")
            scrolls == CallsTo("scroll_to_item")
        IN IF matchCount > 0
           THEN /\ Len(sets) = 1 /\ Len(scrolls) = 1
                /\ sets[1][2] = scrolls[1][2]
                /\ calls[Len(calls) - 1] = sets[1]
                /\ calls[Len(calls)] = scrolls[1]
           ELSE Len(sets) = 0 /\ Len(scrolls) = 0

\* C10: confirm makes the single call confirm(false), secondaryConfirm the
\* single call confirm(true), cancel the single call dismissed; nothing else
\* is called and no state changes, whatever the match count and the slot.
C10_ConfirmCancelForwardOnce ==
    /\ [](lastOp = "confirm" => calls = << <<"confirm", BoolArg(FALSE)>> >>)
    /\ [](lastOp = "secondary_confirm" => calls = << <<"confirm", BoolArg(TRUE)>> >>)
    /\ [](lastOp = "cancel" => calls = << <<"dismissed", 0>> >>)
    /\ [][lastOp' \in {"confirm", "secondary_confirm", "cancel"}
            => UNCHANGED <<matchCount, selectedIndex, scrollTarget, pending, task,
                           nTasks, refreshes>>]_vars

\* secondaryConfirm on an empty match set while an update task is pending
C10_Witness ==
    /\ lastOp = "secondary_confirm"
    /\ calls = << <<"confirm", 1>> >>
    /\ matchCount = 0
    /\ pending # None
    /\ task[pending] = "running"

ForwardOps == {"confirm", "secondary_confirm", "cancel"}

\* C11 as stated: navigation, confirm and cancel are total: for every match
\* count and every selected index of the machine word the handler completes
\* without failure and without arithmetic overflow.
C11_Original ==
    [][lastOp' \in NavOps \cup ForwardOps
         => /\ ~failed'
            /\ (lastOp' = "select_next" /\ matchCount > 0)
                  => selectedIndex + 1 <= UsizeMax]_vars

\* the calls in cs that go to fn
CallsIn(cs, fn) == SelectSeq(cs, LAMBDA c : c[1] = fn)

\* C12: an editor event starts the query-change pipeline exactly when it is
\* BufferEdited: then Delegate.update_matches is called once, with the
\* editor's current text, and a task is started; for any other event nothing
\* is called, no refresh runs and no state changes.
C12_OnlyBufferEditedStartsUpdate ==
    [][lastOp' = "on_input_editor_event"
         => IF lastEvent' = "BufferEdited"
            THEN /\ CallsIn(calls', "update_matches")
                      = << <<"update_matches", editorText'>> >>
                 /\ calls'[1] = <<"update_matches", editorText'>>
                 /\ nTasks' = nTasks + 1
                 /\ refreshes' = refreshes + 1
            ELSE /\ calls' = <<>>
                 /\ UNCHANGED <<matchCount, selectedIndex, scrollTarget, pending, task,
                                nTasks, refreshes, editorText>>]_vars

\* a buffer edit that changed the text while an earlier task was running
C12_Witness ==
    /\ lastOp = "on_input_editor_event"
    /\ lastEvent = "BufferEdited"
    /\ editorText = 1
    /\ calls[1] = <<"update_matches", 1>>
    /\ nTasks = 2
    /\ task[1] = "running"

\* the positions in cs of the call c
Positions(cs, c) == {i \in 1 .. Len(cs) : cs[i] = c}

\* C13: within a query change Delegate.update_matches is called first, then
\* the synchronous refresh runs (it scrolls and clears the slot), and only
\* then the new task is spawned and registered; when the query change returns
\* the slot is non-null and holds the task just started.
C13_RefreshBeforeRegistration ==
    [][(IsQueryChange(lastOp') /\ nTasks' = nTasks + 1)
         => LET id == nTasks'
                um == {i \in 1 .. Len(calls') : calls'[i][1] = "update_matches"}
                scroll == Positions(calls', <<"scroll_to_item", selectedIndex'>>)
                clear == Positions(calls', <<"pending_update_matches", None>>)
                reg == Positions(calls', <<"pending_update_matches", id>>)
            IN /\ Cardinality(um) = 1 /\ Cardinality(scroll) = 1
               /\ Cardinality(clear) = 1 /\ Cardinality(reg) = 1
               /\ \A u \in um, s \in scroll, c \in clear, r \in reg :
                     u < s /\ s < c /\ c < r /\ r = Len(calls')
               /\ pending' = id
               /\ pending' # None
               /\ task'[id] = "running"
               /\ refreshes' = refreshes + 1]_vars

\* the second query change returned while the first task was still running
C13_Witness ==
    /\ IsQueryChange(lastOp)
    /\ nTasks = 2
    /\ pending = 2
    /\ task[1] = "running" /\ task[2] = "running"
    /\ calls[Len(calls)] = <<"pending_update_matches", 2>>

\* a step in which a matches-updated refresh is due: a query change (the
\* synchronous refresh) or the resolution of a task on a live controller
RefreshDue ==
    \/ IsQueryChange(lastOp') /\ nTasks' = nTasks + 1
    \/ \E id \in TaskIds : task[id] = "running" /\ task'[id] = "done"

\* C14: every matches-updated refresh, synchronous or on resolution and for
\* every match count, reads selected_index once, requests one scroll to that
\* index, writes None to the slot once and notifies once, in this order;
\* right after it the last scroll target is the delegate's selected index, and
\* after a refresh on resolution the slot is None.
C14_RefreshReadsScrollsClearsNotifies ==
    [][RefreshDue
         => LET rd == Positions(calls', <<"selected_index", 0>>)
                sc == {i \in 1 .. Len(calls') : calls'[i][1] = "scroll_to_item"}
                cl == Positions(calls', <<"pending_update_matches", None>>)
                nt == Positions(calls', <<"notify", 0>>)
            IN /\ refreshes' = refreshes + 1
               /\ Cardinality(rd) = 1 /\ Cardinality(sc) = 1
               /\ Cardinality(cl) = 1 /\ Cardinality(nt) = 1
               /\ \A r \in rd, s \in sc, c \in cl, n \in nt :
                     /\ r < s /\ s < c /\ c < n
                     /\ calls'[s] = <<"scroll_to_item", selectedIndex'>>
               /\ scrollTarget' = selectedIndex'
               /\ lastOp' = "task_resolved" => pending' = None]_vars

\* a refresh on resolution with an empty match set still scrolls to the index
C14_Witness ==
    /\ live
    /\ lastOp = "task_resolved"
    /\ matchCount = 0
    /\ selectedIndex > 0
    /\ calls = matches_updated_calls(selectedIndex)
    /\ scrollTarget = selectedIndex
    /\ pending = None

\* C15: a repaint with visible range R reads selected_index once and calls
\* render_match exactly once for every index of R, in order, and for no
\* other index, with selected = (ix = selected_index); so at most one row is
\* marked selected, and exactly one when selected_index lies in R.
C15_RenderVisibleRangeOnly ==
    lastOp = "render" =>
        LET start == visibleRange[1]
            end == visibleRange[2]
            rows == CallsTo("render_match")
            marked == {i \in 1 .. Len(rows) : rows[i][3] = BoolArg(TRUE)}
        IN /\ Len(CallsTo("selected_index")) = 1
           /\ Len(rows) = end - start
           /\ \A i \in 1 .. Len(rows) :
                 /\ rows[i][2] = start + i - 1
                 /\ rows[i][3] = BoolArg(rows[i][2] = selectedIndex)
           /\ Cardinality(marked) <= 1
           /\ (start <= selectedIndex /\ selectedIndex < end) => Cardinality(marked) = 1
           /\ Len(CallsTo("set_selected_index")) = 0

\* both rows of a two-match list painted, the second one selected
C15_Witness ==
    /\ lastOp = "render"
    /\ visibleRange = <<0, 2>>
    /\ selectedIndex = 1
    /\ CallsTo("render_match") = << <<"render_match", 0, 0>>, <<"render_match", 1, 1>> >>

\* C16: only the navigation handlers call set_selected_index; a query change
\* and a task resolution make no such call, and a resolution leaves the
\* delegate's selection and match count as they are, also when the selected
\* index is at or above the match count.
C16_OnlyNavigationSetsSelection ==
    /\ [](lastOp \notin NavOps => Len(CallsTo("set_selected_index")) = 0)
    /\ [][Len(CallsIn(calls', "set_selected_index")) > 0 => lastOp' \in NavOps]_vars
    /\ [][(\E id \in TaskIds : task[id] = "running" /\ task'[id] # "running")
            => UNCHANGED <<selectedIndex, matchCount>>]_vars

\* a refresh on resolution scrolled to a selection beyond the match set
C16_Witness ==
    /\ live
    /\ lastOp = "task_resolved"
    /\ matchCount > 0
    /\ selectedIndex >= matchCount
    /\ scrollTarget = selectedIndex
    /\ calls = matches_updated_calls(selectedIndex)

\* C17: with the delegate storing the index it is given, a navigation
\* operation started with matchCount = n > 0 and 0 <= selectedIndex < n ends
\* with 0 <= selectedIndex < n, does not fail and leaves n as it is; so any
\* sequence of navigation operations keeps the selection valid.
C17_NavigationKeepsSelectionValid ==
    [][(lastOp' \in NavOps /\ matchCount > 0
           /\ 0 <= selectedIndex /\ selectedIndex < matchCount)
         => /\ 0 <= selectedIndex' /\ selectedIndex' < matchCount'
            /\ matchCount' = matchCount
            /\ ~failed'
            /\ scrollTarget' = selectedIndex']_vars

\* selectNext moved a valid selection to the last match; no update has run,
\* so the selection was valid before
C17_Witness ==
    /\ nTasks = 0
    /\ lastOp = "select_next"
    /\ matchCount = 2
    /\ selectedIndex = 1
    /\ calls = NavCalls(TRUE, 1)

\* C18: on a live controller the slot is non-null only while some update task
\* is unresolved; once every started task has resolved it is None, whatever
\* query changes, navigation and resolutions came before.
C18_PendingOnlyWhileUnresolved ==
    live => /\ pending # None => \E id \in TaskIds : task[id] = "running"
            /\ AllResolved => pending = None

\* both tasks resolved oldest first, then a navigation: the slot is empty
C18_Witness ==
    /\ live
    /\ nTasks = 2
    /\ resolveOrder = <<1, 2>>
    /\ AllResolved
    /\ lastOp \in NavOps
    /\ pending = None

\* C19 as stated: navigation, confirm, secondaryConfirm and cancel run while
\* an update task is in flight leave the slot as it is, start no task, make
\* no update_matches call and run no refresh, and afterwards every in-flight
\* task is still running and can still resolve and refresh.
C19_Original ==
    [][(lastOp' \in NavOps \cup ForwardOps
           /\ \E id \in TaskIds : task[id] = "running")
         => /\ UNCHANGED <<pending, task, nTasks, refreshes>>
            /\ Len(CallsIn(calls', "update_matches")) = 0
            /\ Len(CallsIn(calls', "notify")) = 0
            /\ \A id \in TaskIds :
                  task[id] = "running" => (task'[id] = "running" /\ live' /\ ~failed')]_vars
====
